---- MODULE Spec2Model ----
(***************************************************************************)
(* Model of random_composition_generator.py and of the loop of main.py:    *)
(* the reference scanner, the patient-reference normalizer, the closure    *)
(* builder, build_composition_and_bundle, the late rewrite passes          *)
(* (mapping, canonical patient) and the structural validator.              *)
(*                                                                         *)
(* JSON values are tagged trees.  A Python str is a sequence of tokens:    *)
(* each token is either one separator character ("/", ":") or one maximal  *)
(* run of the characters [A-Za-z0-9._-] (a "word").  "Patient/P1" is       *)
(* <<"Patient", "/", "P1">>, "urn:Patient/P1" is                           *)
(* <<"urn", ":", "Patient", "/", "P1">>.  A dict is the sequence of its    *)
(* (key, value) items in insertion order, a list the sequence of its       *)
(* items.                                                                  *)
(***************************************************************************)
EXTENDS Integers, Sequences, FiniteSets, TLC

VARIABLES
    resources_by_key,    \* the index: key -> resource body (load_library)
    lib0,                \* the index as it was loaded (never assigned again)
    randomize_values,    \* --randomize-values
    build_no,            \* i + 1 of main's loop over range(count)
    pc,                  \* position inside main / build_composition_and_bundle
    synthetic_patient_ref,
    selected_sections,   \* sections sampled from the template, still to build
    composition_sections,
    title_owner,         \* per composition section: the template section whose
                         \* "title" object it shares (Python object identity)
    selected_keys,
    todo_keys,           \* rest of "for key in list(selected_keys)"
    bundle,
    bundle_fullUrls,
    stack,               \* include_resource_and_children: per active call, the
                         \* references its "for rtype, rid in refs" has left
    ensure_pos,          \* position of the loop of lines 461-475
    issues,              \* result of structural_validate_bundle
    map_file,            \* --map-file: the loaded mapping, as (old, new) pairs
    canonical_patient,   \* --canonical-patient, <<>> when not given
    nx, nx0, nx1, nR, nphase   \* normalizer harness: graph, inputs, call count

vars == <<resources_by_key, lib0, randomize_values, build_no, pc,
          synthetic_patient_ref, selected_sections, composition_sections,
          title_owner, selected_keys, todo_keys, bundle, bundle_fullUrls,
          stack, ensure_pos, issues, map_file, canonical_patient,
          nx, nx0, nx1, nR, nphase>>

buildVars == <<resources_by_key, lib0, randomize_values, build_no, pc,
          synthetic_patient_ref, selected_sections, composition_sections,
          title_owner, selected_keys, todo_keys, bundle, bundle_fullUrls,
          stack, ensure_pos, issues, map_file, canonical_patient>>

argVars == <<map_file, canonical_patient>>

normVars == <<nx, nx0, nx1, nR, nphase>>

(***************************************************************************)
(* Bounds                                                                  *)
(***************************************************************************)
MaxBuilds == 2      \* --count
MaxDepth == 2       \* nesting depth of the graphs given to the normalizer

(***************************************************************************)
(* Program constants                                                       *)
(***************************************************************************)
MIN_SECTIONS == 1
MAX_SECTIONS == 10
MIN_ENTRIES_PER_SECTION == 1
MAX_ENTRIES_PER_SECTION == 10

(***************************************************************************)
(* Tagged values                                                           *)
(***************************************************************************)
Str(s) == [t |-> "str", s |-> s, kids |-> <<>>]
Obj(items) == [t |-> "obj", s |-> <<>>, kids |-> items]
Lst(vals) == [t |-> "list", s |-> <<>>,
              kids |-> [i \in 1..Len(vals) |-> [k |-> "", v |-> vals[i]]]]
None == [t |-> "none", s |-> <<>>, kids |-> <<>>]
KV(k, v) == [k |-> k, v |-> v]

IsStr(v) == v.t = "str"
IsDict(v) == v.t = "obj"
IsList(v) == v.t = "list"

\* "key in o"
Has(o, key) == IsDict(o) /\ \E i \in 1..Len(o.kids) : o.kids[i].k = key
\* o.get(key, dflt)
GetOr(o, key, dflt) ==
    IF Has(o, key)
    THEN o.kids[CHOOSE i \in 1..Len(o.kids) : o.kids[i].k = key].v
    ELSE dflt
Get(o, key) == GetOr(o, key, None)
\* the items of a list value
Items(l) == [i \in 1..Len(l.kids) |-> l.kids[i].v]
\* o[key] = v
SetKey(o, key, v) ==
    IF Has(o, key)
    THEN [o EXCEPT !.kids = [i \in 1..Len(o.kids) |->
              IF o.kids[i].k = key THEN KV(key, v) ELSE o.kids[i]]]
    ELSE [o EXCEPT !.kids = Append(o.kids, KV(key, v))]

(***************************************************************************)
(* Strings: REF_RE, startswith, f"{a}/{b}"                                 *)
(***************************************************************************)
\* words made of letters only
AlphaWords == {"Patient", "Encounter", "Observation", "Composition", "Bundle",
               "urn", "final", "document", "Section", "a", "b", "x"}
\* words of [A-Za-z0-9._-] that end in a character that is no letter
IdWords == {"P1", "E1", "O1", "C1", "E9", "P2", "K1", "M1"} \cup
           {"u1-01", "u1-02", "u1-03", "u1-04", "u1-05", "u1-06", "u1-07", "u1-08",
            "u1-09", "u1-10", "u1-11", "u1-12", "u1-13", "u1-14", "u1-15", "u1-16",
            "u2-01", "u2-02", "u2-03", "u2-04", "u2-05", "u2-06", "u2-07", "u2-08",
            "u2-09", "u2-10", "u2-11", "u2-12", "u2-13", "u2-14", "u2-15", "u2-16",
            "u3-01", "u3-02", "u3-03", "u3-04", "u3-05", "u3-06", "u3-07", "u3-08",
            "u3-09", "u3-10", "u3-11", "u3-12", "u3-13", "u3-14", "u3-15", "u3-16",
            "u4-01", "u4-02", "u4-03", "u4-04", "u4-05", "u4-06", "u4-07", "u4-08",
            "u4-09", "u4-10", "u4-11", "u4-12", "u4-13", "u4-14", "u4-15", "u4-16"}

\* REF_RE = ([A-Za-z]+)\/([A-Za-z0-9\-\._]+)$ under search(): the string ends
\* with word "/" word, and the first of the two ends in a run of letters
\* (group 1 is that run: for a word of letters, the whole word).
RefMatches(s) ==
    /\ Len(s) >= 3
    /\ s[Len(s)] \in AlphaWords \cup IdWords
    /\ s[Len(s) - 1] = "/"
    /\ s[Len(s) - 2] \in AlphaWords
\* (m.group(1), m.group(2))
RefKey(s) == << <<s[Len(s) - 2]>>, <<s[Len(s)]>> >>

\* v.startswith("Patient/")
StartsWithPatient(s) == Len(s) >= 2 /\ s[1] = "Patient" /\ s[2] = "/"

\* f"{a}/{b}"
Fmt(a, b) == a \o <<"/">> \o b
FmtKey(key) == Fmt(key[1], key[2])

\* str(uuid.uuid4()): the i-th identifier drawn in build b; no two are equal
\* and none occurs in the library
UuidTable == <<
    <<"u1-01", "u1-02", "u1-03", "u1-04", "u1-05", "u1-06", "u1-07", "u1-08",
      "u1-09", "u1-10", "u1-11", "u1-12", "u1-13", "u1-14", "u1-15", "u1-16">>,
    <<"u2-01", "u2-02", "u2-03", "u2-04", "u2-05", "u2-06", "u2-07", "u2-08",
      "u2-09", "u2-10", "u2-11", "u2-12", "u2-13", "u2-14", "u2-15", "u2-16">>,
    <<"u3-01", "u3-02", "u3-03", "u3-04", "u3-05", "u3-06", "u3-07", "u3-08",
      "u3-09", "u3-10", "u3-11", "u3-12", "u3-13", "u3-14", "u3-15", "u3-16">>,
    <<"u4-01", "u4-02", "u4-03", "u4-04", "u4-05", "u4-06", "u4-07", "u4-08",
      "u4-09", "u4-10", "u4-11", "u4-12", "u4-13", "u4-14", "u4-15", "u4-16">>>>
Uuid(b, i) == UuidTable[b][i]

(***************************************************************************)
(* find_reference_strings                                                  *)
(***************************************************************************)
MatchOf(v) == IF IsStr(v) /\ RefMatches(v.s) THEN {RefKey(v.s)} ELSE {}

RECURSIVE find_reference_strings(_)
find_reference_strings(o) ==
    IF IsDict(o)
    THEN (IF Has(o, "reference") THEN MatchOf(Get(o, "reference")) ELSE {})
         \cup UNION { IF IsStr(o.kids[i].v)
                      THEN MatchOf(o.kids[i].v)
                      ELSE find_reference_strings(o.kids[i].v)
                      : i \in 1..Len(o.kids) }
    ELSE IF IsList(o)
    THEN UNION { find_reference_strings(o.kids[i].v) : i \in 1..Len(o.kids) }
    ELSE {}

(***************************************************************************)
(* _normalize_patient_refs_in_resource                                     *)
(***************************************************************************)
IsPatientStr(v) == IsStr(v) /\ StartsWithPatient(v.s)

\* a normalizer that leaves a dict as soon as it has rewritten one attribute
RECURSIVE NormalizeFirstOnly(_, _)
NormalizeFirstOnly(obj, ref) ==
    IF IsDict(obj)
    THEN LET hits == {i \in 1..Len(obj.kids) : IsPatientStr(obj.kids[i].v)}
             stop == IF hits = {} THEN Len(obj.kids) + 1
                     ELSE CHOOSE i \in hits : \A j \in hits : i <= j
         IN [obj EXCEPT !.kids = [i \in 1..Len(obj.kids) |->
                IF i = stop THEN KV(obj.kids[i].k, Str(ref))
                ELSE IF i < stop
                THEN KV(obj.kids[i].k, NormalizeFirstOnly(obj.kids[i].v, ref))
                ELSE obj.kids[i]]]
    ELSE IF IsList(obj)
    THEN [obj EXCEPT !.kids = [i \in 1..Len(obj.kids) |->
                KV("", NormalizeFirstOnly(obj.kids[i].v, ref))]]
    ELSE obj

RECURSIVE normalize_patient_refs_in_resource(_, _)
normalize_patient_refs_in_resource(obj, ref) ==
    IF IsDict(obj)
    THEN [obj EXCEPT !.kids = [i \in 1..Len(obj.kids) |->
                IF IsPatientStr(obj.kids[i].v)
                THEN KV(obj.kids[i].k, Str(ref))
                ELSE KV(obj.kids[i].k,
                        normalize_patient_refs_in_resource(obj.kids[i].v, ref))]]
    ELSE IF IsList(obj)
    THEN [obj EXCEPT !.kids = [i \in 1..Len(obj.kids) |->
                KV("", normalize_patient_refs_in_resource(obj.kids[i].v, ref))]]
    ELSE obj

(***************************************************************************)
(* The normalizer on its own: any graph, any canonical reference, called   *)
(* twice                                                                   *)
(***************************************************************************)
LeafStrings == { <<"Patient", "/", "P1">>, <<"urn", ":", "Patient", "/", "P1">>,
                 <<"Encounter", "/", "E1">>, <<"final">>,
                 <<"Patient", "/", "u1-01">> }
Leaves == {Str(s) : s \in LeafStrings}

RECURSIVE Graphs(_)
Graphs(d) ==
    IF d = 0 THEN Leaves
    ELSE LET G == Graphs(d - 1)
         IN G \cup {Obj(<<KV("reference", a)>>) : a \in G}
              \cup {Obj(<<KV("x", a), KV("reference", b)>>) : a \in G, b \in Leaves}
              \cup {Lst(<<a, b>>) : a \in G, b \in Leaves}

CanonRefs == { <<"Patient", "/", "u1-01">>, <<"urn", ":", "Patient", "/", "u1-01">>,
               <<"Encounter", "/", "E1">> }

BuildIdle ==
    /\ resources_by_key = <<>>
    /\ lib0 = <<>>
    /\ randomize_values = FALSE
    /\ build_no = 0
    /\ pc = "idle"
    /\ synthetic_patient_ref = <<>>
    /\ selected_sections = <<>>
    /\ composition_sections = <<>>
    /\ title_owner = <<>>
    /\ selected_keys = {}
    /\ todo_keys = {}
    /\ bundle = None
    /\ bundle_fullUrls = {}
    /\ stack = <<>>
    /\ ensure_pos = 0
    /\ issues = <<>>
    /\ map_file = {}
    /\ canonical_patient = <<>>

NormIdle ==
    /\ nx = None
    /\ nx0 = None
    /\ nx1 = None
    /\ nR = <<>>
    /\ nphase = 0

NormInit ==
    /\ BuildIdle
    /\ nx \in Graphs(MaxDepth)
    /\ nx0 = nx
    /\ nx1 = nx
    /\ nR \in CanonRefs
    /\ nphase = 0

\* _normalize_patient_refs_in_resource(x, R), in place
NormCall ==
    /\ nphase < 2
    /\ nx' = normalize_patient_refs_in_resource(nx, nR)
    /\ nx1' = IF nphase = 0 THEN nx' ELSE nx1
    /\ nphase' = nphase + 1
    /\ UNCHANGED <<nx0, nR>>
    /\ UNCHANGED buildVars

NormNext == NormCall

NormSpec == NormInit /\ [][NormNext]_vars

\* C6: a second call of the normalizer with the same canonical reference
\* leaves the graph as the first call left it.
C6_Idempotent == nphase = 2 => nx = nx1

\* the first call rewrote something, the reference given is no Patient/
\* string, and the second call has run
C6_Witness ==
    /\ nphase = 2
    /\ nx1 # nx0
    /\ ~StartsWithPatient(nR)
    /\ IsDict(nx) /\ Len(nx.kids) = 2

(***************************************************************************)
(* The library load_library hands to main: a Patient, an Encounter, an     *)
(* Observation and a Composition template, each present or not, with the   *)
(* attribute shapes the scanner, the normalizer and the validator tell     *)
(* apart                                                                   *)
(***************************************************************************)
SPatient == <<"Patient", "/", "P1">>
SUrnPatient == <<"urn", ":", "Patient", "/", "P1">>
SEncounter == <<"Encounter", "/", "E1">>
SMissing == <<"Encounter", "/", "E9">>
SObservation == <<"Observation", "/", "O1">>

Ref(s) == Obj(<<KV("reference", Str(s))>>)
Res(type, id, attrs) ==
    Obj(<<KV("resourceType", Str(<<type>>)), KV("id", Str(<<id>>))>> \o attrs)

Absent == {None}
ObservationMenu ==
    Absent \cup
    { Res("Observation", "O1", a) :
        a \in { <<>>,
                <<KV("subject", Ref(SPatient)), KV("encounter", Ref(SEncounter))>>,
                <<KV("subject", Ref(SUrnPatient)), KV("encounter", Ref(SEncounter))>>,
                <<KV("link", Str(SPatient)), KV("encounter", Ref(SMissing))>> } }
EncounterMenu ==
    Absent \cup
    { Res("Encounter", "E1", a) :
        a \in { <<KV("subject", Ref(SPatient))>>,
                <<KV("reasonReference", Lst(<<Ref(SObservation)>>))>> } }
PatientMenu ==
    Absent \cup
    { Res("Patient", "P1", a) :
        a \in { <<>>, <<KV("link", Lst(<<Obj(<<KV("other", Ref(SEncounter))>>)>>))>> } }

Section(title, entries) == Obj(<<KV("title", title), KV("entry", Lst(entries))>>)
SecObservation == Section(Str(<<"a">>), <<Ref(SObservation)>>)
SecTwice == Section(Str(<<"a">>), <<Ref(SObservation), Ref(SObservation)>>)
SecAgain == Section(Str(<<"b">>), <<Ref(<<"urn", ":", "Observation", "/", "O1">>)>>)
SecPatient == Section(Str(<<"b">>), <<Ref(SPatient), Ref(SMissing)>>)
SecObjectTitle == Section(Obj(<<KV("x", Str(SPatient))>>), <<Ref(SEncounter)>>)
SecNoReference == Section(Str(<<"b">>), <<Obj(<<KV("display", Str(<<"x">>))>>)>>)
Template(secs) == Res("Composition", "C1", <<KV("section", Lst(secs))>>)
TemplateMenu ==
    Absent \cup {Res("Composition", "C1", <<>>)} \cup
    { Template(secs) :
        secs \in { <<>>,
                   <<SecObservation>>,
                   <<SecTwice>>,
                   <<SecObservation, SecAgain>>,
                   <<SecPatient>>,
                   <<SecObjectTitle, SecNoReference>>,
                   <<SecNoReference>> } }

\* key = (rtype, rid), lines 63-68
KeyOf(res) == <<Get(res, "resourceType").s, Get(res, "id").s>>

\* resources_by_key of load_library for the given bodies
Library(bodies) ==
    LET present == {r \in bodies : r # None}
    IN [key \in {KeyOf(r) : r \in present} |->
            CHOOSE r \in present : KeyOf(r) = key]

\* the libraries tried: every combination of the three clinical resources
\* under two templates, and every template over two fixed libraries
Libraries ==
    { Library({o, e, p, t}) :
        o \in ObservationMenu, e \in EncounterMenu, p \in PatientMenu,
        t \in {Template(<<SecObservation>>),
               Template(<<SecObjectTitle, SecNoReference>>)} }
    \cup
    { Library({Res("Observation", "O1",
                   <<KV("encounter", Ref(SEncounter)), KV("subject", Ref(SPatient))>>),
               Res("Encounter", "E1", <<KV("subject", Ref(SPatient))>>),
               Res("Patient", "P1", <<>>), t}) : t \in TemplateMenu }
    \cup
    { Library({Res("Observation", "O1", <<KV("subject", Ref(SUrnPatient))>>), t}) :
        t \in TemplateMenu }

\* compositions_list: the loaded resources of type Composition (lines 69-70),
\* the same objects as the values of resources_by_key
CompositionsList ==
    {key \in DOMAIN resources_by_key : key[1] = <<"Composition">>}

(***************************************************************************)
(* build_composition_and_bundle, step by step                              *)
(***************************************************************************)
Min(a, b) == IF a < b THEN a ELSE b

\* random.sample(range(1, n + 1), k): k distinct positions in any order
Samples(n, k) ==
    {f \in [1..k -> 1..n] : \A i, j \in 1..k : i # j => f[i] # f[j]}

\* "P" + str(uuid.uuid4()) and f"generated-comp-{uuid.uuid4()}": one word each
PatientId(b) == Uuid(b, 1)
CompId(b) == Uuid(b, 2)

\* generate_synthetic_patient (gender and birthDate, two random scalars that
\* are no strings of the shape Type/Id, are left out)
generate_synthetic_patient(b) ==
    Res("Patient", PatientId(b),
        <<KV("name", Lst(<<Obj(<<KV("use", Str(<<"official">>)),
                                 KV("family", Str(<<"Synthetic-P">>)),
                                 KV("given", Lst(<<Str(<<"Patient">>)>>))>>)>>)),
          KV("identifier", Lst(<<Obj(<<KV("system", Str(<<"urn", ":", "synthetic">>)),
                                       KV("value", Str(<<PatientId(b)>>))>>)>>))>>)

\* the composition dict of lines 338-354 with its sections (line 408)
NewComposition(b, ref, sections) ==
    Res("Composition", CompId(b),
        <<KV("status", Str(<<"final">>)),
          KV("type", Obj(<<KV("coding", Lst(<<Obj(<<
                KV("system", Str(<<"http", ":", "/", "/", "loinc.org">>)),
                KV("code", Str(<<"11506-3">>)),
                KV("display", Str(<<"Clinical", " ", "Document">>))>>)>>))>>)),
          KV("title", Str(<<"Synthetic", " ", "Composition", " ", "Document">>)),
          KV("date", Str(<<"utcnow">>)),
          KV("author", Lst(<<Obj(<<KV("display", Str(<<"SyntheticGenerator">>))>>)>>)),
          KV("subject", Ref(ref)),
          KV("section", Lst(sections))>>)

NoOwner == <<>>

\* lines 397-406: the two sections used when there is no template section list
FallbackSections(b) ==
    << Obj(<<KV("title", Str(<<"Synthetic", " ", "Episode">>)),
             KV("entry", Lst(<<Ref(Fmt(<<"Encounter">>, <<Uuid(b, 3)>>))>>))>>),
       Obj(<<KV("title", Str(<<"Synthetic", " ", "Observations">>)),
             KV("entry", Lst(<<Ref(Fmt(<<"Observation">>, <<Uuid(b, 4)>>))>>))>>) >>

\* lines 331-368: template choice, synthetic patient, sampled sections
StartBuild ==
    /\ pc = "start"
    /\ synthetic_patient_ref' = Fmt(<<"Patient">>, <<PatientId(build_no)>>)
    /\ selected_keys' = {}
    /\ \E tkey \in (IF CompositionsList = {} THEN {NoOwner} ELSE CompositionsList) :
          IF tkey # NoOwner /\ Has(resources_by_key[tkey], "section")
          THEN LET template_sections == Items(Get(resources_by_key[tkey], "section"))
               IN \E n_sections \in MIN_SECTIONS..MAX_SECTIONS :
                  \E sample \in Samples(Len(template_sections),
                                        Min(Len(template_sections), n_sections)) :
                      /\ selected_sections' =
                            [i \in 1..Len(sample) |-> <<tkey, sample[i]>>]
                      /\ composition_sections' = <<>>
                      /\ title_owner' = <<>>
          ELSE /\ selected_sections' = <<>>
               /\ composition_sections' = FallbackSections(build_no)
               /\ title_owner' = <<NoOwner, NoOwner>>
    /\ pc' = "sections"
    /\ UNCHANGED <<resources_by_key, lib0, randomize_values, build_no, todo_keys,
                   bundle, bundle_fullUrls, stack, ensure_pos, issues>>
    /\ UNCHANGED normVars
    /\ UNCHANGED argVars

\* a section entry that keeps the template's reference string as it is
EntryOfVerbatim(e) ==
    IF IsDict(e) /\ Has(e, "reference") /\ RefMatches(Get(e, "reference").s)
    THEN <<Ref(Get(e, "reference").s)>>
    ELSE <<>>

\* lines 381-389 for one sampled entry: the section entry made of it, if any
EntryOf(e) ==
    IF IsDict(e) /\ Has(e, "reference") /\ RefMatches(Get(e, "reference").s)
    THEN <<Ref(FmtKey(RefKey(Get(e, "reference").s)))>>
    ELSE <<>>
KeysOf(e) ==
    IF IsDict(e) /\ Has(e, "reference") /\ RefMatches(Get(e, "reference").s)
    THEN {RefKey(Get(e, "reference").s)}
    ELSE {}

RECURSIVE EntriesOf(_)
EntriesOf(selected_entries) ==
    IF selected_entries = <<>> THEN <<>>
    ELSE EntryOf(Head(selected_entries)) \o EntriesOf(Tail(selected_entries))

\* lines 370-395: one iteration of "for sec in selected_sections"
BuildSection ==
    /\ pc = "sections"
    /\ selected_sections # <<>>
    /\ LET owner == Head(selected_sections)
           sec == Items(Get(resources_by_key[owner[1]], "section"))[owner[2]]
           template_entries == Items(GetOr(sec, "entry", Lst(<<>>)))
       IN \E n_entries \in MIN_ENTRIES_PER_SECTION..MAX_ENTRIES_PER_SECTION :
          \E sample \in Samples(Len(template_entries),
                                Min(Len(template_entries), n_entries)) :
             LET selected_entries == [i \in 1..Len(sample) |-> template_entries[sample[i]]]
                 entries == EntriesOf(selected_entries)
             IN /\ selected_keys' = selected_keys \cup
                       UNION {KeysOf(selected_entries[i]) : i \in 1..Len(selected_entries)}
                /\ IF entries # <<>>
                   THEN /\ composition_sections' = Append(composition_sections,
                              Obj(<<KV("title", GetOr(sec, "title", Str(<<"Section">>))),
                                    KV("entry", Lst(entries))>>))
                        /\ title_owner' = Append(title_owner, owner)
                   ELSE UNCHANGED <<composition_sections, title_owner>>
    /\ selected_sections' = Tail(selected_sections)
    /\ UNCHANGED <<resources_by_key, lib0, randomize_values, build_no, pc,
                   synthetic_patient_ref, todo_keys, bundle, bundle_fullUrls,
                   stack, ensure_pos, issues>>
    /\ UNCHANGED normVars
    /\ UNCHANGED argVars

BundleEntry(fullUrl, resource) ==
    Obj(<<KV("fullUrl", Str(fullUrl)), KV("resource", resource)>>)
Entries(b) == Items(GetOr(b, "entry", Lst(<<>>)))
\* bundle["entry"].append(e)
AppendEntry(b, e) == SetKey(b, "entry", Lst(Append(Entries(b), e)))

\* lines 408-420
InitBundle ==
    /\ pc = "sections"
    /\ selected_sections = <<>>
    /\ bundle' = Obj(<<KV("resourceType", Str(<<"Bundle">>)),
                       KV("type", Str(<<"document">>)),
                       KV("timestamp", Str(<<"utcnow">>)),
                       KV("entry", Lst(<<
                          BundleEntry(Fmt(<<"Composition">>, <<CompId(build_no)>>),
                                      NewComposition(build_no, synthetic_patient_ref,
                                                     composition_sections)),
                          BundleEntry(synthetic_patient_ref,
                                      generate_synthetic_patient(build_no))>>))>>)
    /\ bundle_fullUrls' = {Fmt(<<"Composition">>, <<CompId(build_no)>>),
                           synthetic_patient_ref}
    /\ todo_keys' = selected_keys
    /\ pc' = "include"
    /\ UNCHANGED <<resources_by_key, lib0, randomize_values, build_no,
                   synthetic_patient_ref, selected_sections, composition_sections,
                   title_owner, selected_keys, stack, ensure_pos, issues>>
    /\ UNCHANGED normVars
    /\ UNCHANGED argVars

\* the composition dict: the resource of the bundle's first entry
Composition == Get(Entries(bundle)[1], "resource")

(***************************************************************************)
(* include_resource_and_children                                           *)
(***************************************************************************)
\* copy.deepcopy: values carry no identity, so the copy is the value
deepcopy(res) == res

\* lines 305-317 of one call: the bundle, the visited set and the call stack
\* after the entry is appended and the copy scanned (the loop of lines
\* 318-321 is ClosureStep)
include_resource_and_children(b, urls, stk, key, ref) ==
    IF key \notin DOMAIN resources_by_key
    THEN [bundle |-> b, urls |-> urls, stack |-> stk]
    ELSE LET res == resources_by_key[key]
             fullUrl == Fmt(Get(res, "resourceType").s, Get(res, "id").s)
             res_copy == IF ref # <<>>
                         THEN normalize_patient_refs_in_resource(deepcopy(res), ref)
                         ELSE deepcopy(res)
         IN IF fullUrl \in urls
            THEN [bundle |-> b, urls |-> urls, stack |-> stk]
            ELSE [bundle |-> AppendEntry(b, BundleEntry(fullUrl, res_copy)),
                  urls |-> urls \cup {fullUrl},
                  stack |-> Append(stk, find_reference_strings(res_copy))]

\* lines 318-321: one iteration of "for rtype, rid in refs" of the innermost
\* active call (a set is iterated in any order), or its return
ClosureStep ==
    /\ pc \in {"include", "ensure"}
    /\ stack # <<>>
    /\ LET n == Len(stack)
           refs == stack[n]
       IN IF refs = {}
          THEN /\ stack' = SubSeq(stack, 1, n - 1)
               /\ UNCHANGED <<bundle, bundle_fullUrls>>
          ELSE \E child_key \in refs :
                  LET rest == [stack EXCEPT ![n] = refs \ {child_key}]
                      r == IF child_key \in DOMAIN resources_by_key
                           THEN include_resource_and_children(bundle, bundle_fullUrls,
                                    rest, child_key, synthetic_patient_ref)
                           ELSE [bundle |-> bundle, urls |-> bundle_fullUrls,
                                 stack |-> rest]
                  IN /\ bundle' = r.bundle
                     /\ bundle_fullUrls' = r.urls
                     /\ stack' = r.stack
    /\ UNCHANGED <<resources_by_key, lib0, randomize_values, build_no, pc,
                   synthetic_patient_ref, selected_sections, composition_sections,
                   title_owner, selected_keys, todo_keys, ensure_pos, issues>>
    /\ UNCHANGED normVars
    /\ UNCHANGED argVars

SubjectTypes == {"Observation", "Procedure", "Encounter", "Specimen",
                 "ServiceRequest", "ImagingStudy", "DiagnosticReport"}

\* lines 427-430 and 471-473
Placeholder(key, ref) ==
    Res(key[1][1], key[2][1],
        IF key[1][1] \in SubjectTypes THEN <<KV("subject", Ref(ref))>> ELSE <<>>)

\* lines 423-432: one iteration of "for key in list(selected_keys)"
IncludeSelected ==
    /\ pc = "include"
    /\ stack = <<>>
    /\ \E key \in todo_keys :
          /\ todo_keys' = todo_keys \ {key}
          /\ IF key \in DOMAIN resources_by_key
             THEN LET r == include_resource_and_children(bundle, bundle_fullUrls,
                               stack, key, synthetic_patient_ref)
                  IN /\ bundle' = r.bundle
                     /\ bundle_fullUrls' = r.urls
                     /\ stack' = r.stack
             ELSE /\ bundle' = AppendEntry(bundle,
                         BundleEntry(FmtKey(key), Placeholder(key, synthetic_patient_ref)))
                  /\ bundle_fullUrls' = bundle_fullUrls \cup {FmtKey(key)}
                  /\ stack' = stack
    /\ UNCHANGED <<resources_by_key, lib0, randomize_values, build_no, pc,
                   synthetic_patient_ref, selected_sections, composition_sections,
                   title_owner, selected_keys, ensure_pos, issues>>
    /\ UNCHANGED normVars
    /\ UNCHANGED argVars

(***************************************************************************)
(* Vitals and labs (lines 435-455)                                         *)
(***************************************************************************)
NumVitals == 5
NumLabs == 7

\* one Observation of generate_vitals_observations / of
\* generate_basic_lab_observations; category, code, effectiveDateTime and
\* the quantity are fixed texts and numbers and are left out
GeneratedObservation(id, ref, encounter_ref) ==
    Res("Observation", id,
        <<KV("status", Str(<<"final">>)), KV("subject", Ref(ref))>>
        \o (IF encounter_ref # <<>> THEN <<KV("encounter", Ref(encounter_ref))>> ELSE <<>>))

\* lines 437-442: the first Encounter entry of the bundle, if any
EncounterRef(b) ==
    LET es == Entries(b)
        hits == {i \in 1..Len(es) :
                    Get(GetOr(es[i], "resource", Obj(<<>>)), "resourceType")
                        = Str(<<"Encounter">>)}
    IN IF hits = {} THEN <<>>
       ELSE LET i == CHOOSE i \in hits : \A j \in hits : i <= j
            IN Fmt(<<"Encounter">>, Get(Get(es[i], "resource"), "id").s)

RECURSIVE AddGenerated(_, _, _, _, _)
AddGenerated(b, b_no, from, to, encounter_ref) ==
    IF from > to THEN b
    ELSE AddGenerated(
            AppendEntry(b, BundleEntry(Fmt(<<"Observation">>, <<Uuid(b_no, from)>>),
                GeneratedObservation(Uuid(b_no, from),
                                     Fmt(<<"Patient">>, <<PatientId(b_no)>>),
                                     encounter_ref))),
            b_no, from + 1, to, encounter_ref)

GenerateValues ==
    /\ pc = "include"
    /\ stack = <<>>
    /\ todo_keys = {}
    /\ IF randomize_values
       THEN /\ bundle' = AddGenerated(
                            AddGenerated(bundle, build_no, 5, 4 + NumVitals,
                                         EncounterRef(bundle)),
                            build_no, 5 + NumVitals, 4 + NumVitals + NumLabs, <<>>)
            /\ bundle_fullUrls' = bundle_fullUrls \cup
                  {Fmt(<<"Observation">>, <<Uuid(build_no, i)>>) :
                      i \in 5..(4 + NumVitals + NumLabs)}
       ELSE UNCHANGED <<bundle, bundle_fullUrls>>
    /\ pc' = "normalize1"
    /\ UNCHANGED <<resources_by_key, lib0, randomize_values, build_no,
                   synthetic_patient_ref, selected_sections, composition_sections,
                   title_owner, selected_keys, todo_keys, stack, ensure_pos, issues>>
    /\ UNCHANGED normVars
    /\ UNCHANGED argVars

(***************************************************************************)
(* Whole-bundle normalization (lines 458 and 478)                          *)
(***************************************************************************)
\* template["section"][j]["title"] = title
SetSectionTitle(tmpl, j, title) ==
    SetKey(tmpl, "section",
           Lst([Items(Get(tmpl, "section")) EXCEPT ![j] = SetKey(@, "title", title)]))

\* Line 393 stores the template section's own title object in the composition
\* section.  A str is immutable; a dict or list title is one object held by
\* both, so what the normalizer writes into it through the bundle is written
\* into the library resource.
RECURSIVE SharedTitles(_, _, _)
SharedTitles(index, comp, i) ==
    IF i = 0 THEN index
    ELSE LET owner == title_owner[i]
             title == Get(Items(Get(comp, "section"))[i], "title")
             rest == SharedTitles(index, comp, i - 1)
         IN IF owner # NoOwner /\ ~IsStr(title)
            THEN [rest EXCEPT ![owner[1]] = SetSectionTitle(@, owner[2], title)]
            ELSE rest

NormalizeBundle(next_pc) ==
    /\ bundle' = normalize_patient_refs_in_resource(bundle, synthetic_patient_ref)
    /\ resources_by_key' =
          SharedTitles(resources_by_key,
                       Get(Entries(bundle')[1], "resource"), Len(title_owner))
    /\ pc' = next_pc
    /\ UNCHANGED <<lib0, randomize_values, build_no, synthetic_patient_ref,
                   selected_sections, composition_sections, title_owner,
                   selected_keys, todo_keys, bundle_fullUrls, stack, issues>>
    /\ UNCHANGED normVars
    /\ UNCHANGED argVars

\* line 458
Normalize1 ==
    /\ pc = "normalize1"
    /\ ensure_pos' = 1
    /\ NormalizeBundle("ensure")

(***************************************************************************)
(* Lines 460-475: every section entry of the composition gets an entry     *)
(***************************************************************************)
RECURSIVE Flatten(_)
Flatten(sections) ==
    IF sections = <<>> THEN <<>>
    ELSE Items(GetOr(Head(sections), "entry", Lst(<<>>))) \o Flatten(Tail(sections))

SectionEntries(comp) == Flatten(Items(GetOr(comp, "section", Lst(<<>>))))

EnsureEntry ==
    /\ pc = "ensure"
    /\ stack = <<>>
    /\ ensure_pos <= Len(SectionEntries(Composition))
    /\ LET e == SectionEntries(Composition)[ensure_pos]
           s == Get(e, "reference").s
           key == RefKey(s)
       IN IF RefMatches(s) /\ FmtKey(key) \notin bundle_fullUrls
          THEN IF key \in DOMAIN resources_by_key
               THEN LET r == include_resource_and_children(bundle, bundle_fullUrls,
                                 stack, key, synthetic_patient_ref)
                    IN /\ bundle' = r.bundle
                       /\ bundle_fullUrls' = r.urls
                       /\ stack' = r.stack
               ELSE /\ bundle' = AppendEntry(bundle,
                          BundleEntry(FmtKey(key), Placeholder(key, synthetic_patient_ref)))
                    /\ bundle_fullUrls' = bundle_fullUrls \cup {FmtKey(key)}
                    /\ stack' = stack
          ELSE UNCHANGED <<bundle, bundle_fullUrls, stack>>
    /\ ensure_pos' = ensure_pos + 1
    /\ UNCHANGED <<resources_by_key, lib0, randomize_values, build_no, pc,
                   synthetic_patient_ref, selected_sections, composition_sections,
                   title_owner, selected_keys, todo_keys, issues>>
    /\ UNCHANGED normVars
    /\ UNCHANGED argVars

\* line 478, and the return of line 486 (the file written in between is not
\* read again)
Normalize2 ==
    /\ pc = "ensure"
    /\ stack = <<>>
    /\ ensure_pos > Len(SectionEntries(Composition))
    /\ UNCHANGED ensure_pos
    /\ NormalizeBundle("built")

(***************************************************************************)
(* structural_validate_bundle                                              *)
(***************************************************************************)
\* Python truth value
Truthy(v) ==
    CASE IsStr(v) -> v.s # <<>>
      [] v.t \in {"obj", "list"} -> v.kids # <<>>
      [] OTHER -> FALSE

Issue(severity, msg, ref, res) ==
    [severity |-> severity, detail |-> [msg |-> msg, ref |-> ref, res |-> res]]

\* lines 515-523
Present(entries) ==
    {Get(entries[i], "fullUrl").s :
        i \in {j \in 1..Len(entries) : Truthy(Get(entries[j], "fullUrl"))}}
    \cup
    {FmtKey(KeyOf(Get(entries[i], "resource"))) :
        i \in {j \in 1..Len(entries) :
                  /\ ~Truthy(Get(entries[j], "fullUrl"))
                  /\ Truthy(Get(entries[j], "resource"))
                  /\ Has(Get(entries[j], "resource"), "resourceType")
                  /\ Has(Get(entries[j], "resource"), "id")}}

RECURSIVE EntryIssues(_)
EntryIssues(entries) ==
    IF entries = <<>> THEN <<>>
    ELSE LET e == Head(entries)
             res == Get(e, "resource")
         IN (IF Truthy(Get(e, "fullUrl"))
                \/ (Truthy(res) /\ Has(res, "resourceType") /\ Has(res, "id"))
             THEN <<>>
             ELSE <<Issue("error", "entry with no fullUrl and no resource id",
                          <<>>, <<>>)>>)
            \o EntryIssues(Tail(entries))

\* lines 525-529: the first entry whose resource is a Composition
FirstComposition(entries) ==
    LET hits == {i \in 1..Len(entries) :
                    Get(GetOr(entries[i], "resource", Obj(<<>>)), "resourceType")
                        = Str(<<"Composition">>)}
    IN IF hits = {} THEN None
       ELSE Get(entries[CHOOSE i \in hits : \A j \in hits : i <= j], "resource")

\* lines 531-542
SubjectIssues(comp, present) ==
    IF ~Truthy(comp)
    THEN <<Issue("error", "No Composition in Bundle", <<>>, <<>>)>>
    ELSE LET subj == Get(GetOr(comp, "subject", Obj(<<>>)), "reference")
         IN IF ~Truthy(subj)
            THEN <<Issue("error", "Composition.subject missing", <<>>, <<>>)>>
            ELSE IF subj.s \notin present
            THEN <<Issue("error", "Composition.subject not present as resource in bundle",
                         subj.s, <<>>)>>
            ELSE IF ~StartsWithPatient(subj.s)
            THEN <<Issue("warning", "Composition.subject is not a Patient reference",
                         subj.s, <<>>)>>
            ELSE <<>>

\* lines 545-550
RECURSIVE SectionIssues(_, _)
SectionIssues(section_entries, present) ==
    IF section_entries = <<>> THEN <<>>
    ELSE LET ref == Get(Head(section_entries), "reference")
         IN (IF Truthy(ref) /\ ref.s \notin present
             THEN <<Issue("error", "Reference in composition.section not present in bundle",
                          ref.s, <<>>)>>
             ELSE <<>>)
            \o SectionIssues(Tail(section_entries), present)

\* lines 556-566: _walk over o, from its i-th item on
RECURSIVE PatientRefIssues(_, _, _, _)
PatientRefIssues(o, i, present, res) ==
    IF ~(IsDict(o) \/ IsList(o)) \/ i > Len(o.kids) THEN <<>>
    ELSE LET k == o.kids[i].k
             v == o.kids[i].v
         IN (IF IsDict(o) /\ k = "reference" /\ IsPatientStr(v)
             THEN IF v.s \notin present
                  THEN <<Issue("error", "Patient reference not present in bundle",
                               v.s, res)>>
                  ELSE <<>>
             ELSE PatientRefIssues(v, 1, present, res))
            \o PatientRefIssues(o, i + 1, present, res)

\* lines 553-567
RECURSIVE ResourceIssues(_, _)
ResourceIssues(entries, present) ==
    IF entries = <<>> THEN <<>>
    ELSE LET res == Get(Head(entries), "resource")
         IN (IF IsDict(res)
             THEN PatientRefIssues(res, 1, present,
                      Fmt(Get(res, "resourceType").s, Get(res, "id").s))
             ELSE <<>>)
            \o ResourceIssues(Tail(entries), present)

structural_validate_bundle(b) ==
    LET entries == Entries(b)
        present == Present(entries)
        comp == FirstComposition(entries)
    IN EntryIssues(entries)
       \o SubjectIssues(comp, present)
       \o (IF Truthy(comp) THEN SectionIssues(SectionEntries(comp), present) ELSE <<>>)
       \o ResourceIssues(entries, present)

(***************************************************************************)
(* The exceptions of structural_validate_bundle: an attribute access on a  *)
(* value that is no dict, an iteration of None, an unhashable set member   *)
(***************************************************************************)
\* "key in res" of line 520: a key of a dict, an item of a list, a substring
\* of a str (no word of the alphabet is a part of another)
Contains(res, key) ==
    CASE IsDict(res) -> Has(res, key)
      [] IsList(res) -> \E i \in 1..Len(res.kids) : res.kids[i].v = Str(<<key>>)
      [] IsStr(res) -> \E i \in 1..Len(res.s) : res.s[i] = key
      [] OTHER -> FALSE

\* present.add(v), v in present: TypeError for a dict or a list
Unhashable(v) == v.t \in {"obj", "list"}

\* "for x in v: x.get(...)": None is not iterable, a str yields its
\* characters and a dict its keys, which have no get
IterGetRaises(v) ==
    CASE v.t = "none" -> TRUE
      [] IsList(v) -> \E i \in 1..Len(v.kids) : ~IsDict(v.kids[i].v)
      [] OTHER -> Truthy(v)

\* lines 516-521 for one entry
EntryRaises(e) ==
    LET full == Get(e, "fullUrl")
        res == Get(e, "resource")
    IN IF Truthy(full) THEN Unhashable(full)
       ELSE /\ Truthy(res)
            /\ Contains(res, "resourceType")
            /\ Contains(res, "id")
            /\ ~IsDict(res)

\* lines 526-529: e.get("resource", {}).get("resourceType") for every entry up
\* to the first Composition
ScanRaises(entries) ==
    LET hits == {i \in 1..Len(entries) :
                    Get(GetOr(entries[i], "resource", Obj(<<>>)), "resourceType")
                        = Str(<<"Composition">>)}
    IN \E i \in 1..Len(entries) :
          /\ \A j \in hits : i < j
          /\ Has(entries[i], "resource")
          /\ ~IsDict(Get(entries[i], "resource"))

\* lines 534-538
SubjectRaises(comp) ==
    \/ Has(comp, "subject") /\ ~IsDict(Get(comp, "subject"))
    \/ LET subj == Get(GetOr(comp, "subject", Obj(<<>>)), "reference")
       IN Truthy(subj) /\ Unhashable(subj)

\* lines 546-549
SectionRaises(comp) ==
    LET sections == GetOr(comp, "section", Lst(<<>>))
    IN \/ IterGetRaises(sections)
       \/ \E i \in 1..Len(sections.kids) :
             LET section_entries == GetOr(sections.kids[i].v, "entry", Lst(<<>>))
             IN \/ IterGetRaises(section_entries)
                \/ \E j \in 1..Len(section_entries.kids) :
                      LET ref == Get(section_entries.kids[j].v, "reference")
                      IN Truthy(ref) /\ Unhashable(ref)

ValidatorRaises(b) ==
    \/ ~IsDict(b)
    \/ IterGetRaises(GetOr(b, "entry", Lst(<<>>)))
    \/ \E i \in 1..Len(Entries(b)) : EntryRaises(Entries(b)[i])
    \/ ScanRaises(Entries(b))
    \/ LET comp == FirstComposition(Entries(b))
       IN Truthy(comp) /\ (SubjectRaises(comp) \/ SectionRaises(comp))

(***************************************************************************)
(* main: the loop over range(count)                                        *)
(***************************************************************************)
\* normalize_patient_refs_in_bundle(o, mapping, canonical): _walk, in place
MappedTo(mapping, v) == (CHOOSE m \in mapping : m[1] = v)[2]

RECURSIVE normalize_patient_refs_in_bundle(_, _, _)
normalize_patient_refs_in_bundle(o, mapping, canonical) ==
    IF IsDict(o)
    THEN [o EXCEPT !.kids = [i \in 1..Len(o.kids) |->
            LET k == o.kids[i].k
                v == o.kids[i].v
            IN IF k = "reference" /\ IsPatientStr(v)
               THEN IF mapping # {} /\ \E m \in mapping : m[1] = v.s
                    THEN KV(k, Str(MappedTo(mapping, v.s)))
                    ELSE IF canonical # <<>> THEN KV(k, Str(canonical))
                    ELSE o.kids[i]
               ELSE KV(k, normalize_patient_refs_in_bundle(v, mapping, canonical))]]
    ELSE IF IsList(o)
    THEN [o EXCEPT !.kids = [i \in 1..Len(o.kids) |->
            KV("", normalize_patient_refs_in_bundle(o.kids[i].v, mapping, canonical))]]
    ELSE o

\* a late pass of main: the bundle is rewritten in place, and with it the
\* title objects it shares with the index
LatePass(mapping, canonical, next_pc) ==
    /\ bundle' = normalize_patient_refs_in_bundle(bundle, mapping, canonical)
    /\ resources_by_key' =
          SharedTitles(resources_by_key,
                       Get(Entries(bundle')[1], "resource"), Len(title_owner))
    /\ pc' = next_pc
    /\ UNCHANGED <<lib0, randomize_values, build_no, synthetic_patient_ref,
                   selected_sections, composition_sections, title_owner,
                   selected_keys, todo_keys, bundle_fullUrls, stack, ensure_pos,
                   issues>>
    /\ UNCHANGED normVars
    /\ UNCHANGED argVars

\* main.py lines 49-56
ApplyMapping ==
    /\ pc = "built"
    /\ LatePass(map_file, <<>>, "mapped")

\* main.py lines 58-61
ApplyCanonical ==
    /\ pc = "mapped"
    /\ LatePass({}, canonical_patient, "rewritten")

\* main.py line 64: an exception of the validator ends main
Validate ==
    /\ pc = "rewritten"
    /\ IF ValidatorRaises(bundle)
       THEN pc' = "raised" /\ issues' = issues
       ELSE pc' = "validated" /\ issues' = structural_validate_bundle(bundle)
    /\ UNCHANGED <<resources_by_key, lib0, randomize_values, build_no,
                   synthetic_patient_ref, selected_sections, composition_sections,
                   title_owner, selected_keys, todo_keys, bundle, bundle_fullUrls,
                   stack, ensure_pos>>
    /\ UNCHANGED normVars
    /\ UNCHANGED argVars

\* main.py line 38: the next iteration, on the same library
NextBuild ==
    /\ pc = "validated"
    /\ build_no < MaxBuilds
    /\ build_no' = build_no + 1
    /\ pc' = "start"
    /\ synthetic_patient_ref' = <<>>
    /\ selected_sections' = <<>>
    /\ composition_sections' = <<>>
    /\ title_owner' = <<>>
    /\ selected_keys' = {}
    /\ todo_keys' = {}
    /\ bundle' = None
    /\ bundle_fullUrls' = {}
    /\ ensure_pos' = 0
    /\ issues' = <<>>
    /\ UNCHANGED <<resources_by_key, lib0, randomize_values, stack>>
    /\ UNCHANGED normVars
    /\ UNCHANGED argVars

\* the arguments of main: no late pass with every library, and the late
\* passes with the libraries of ArgLibraries
SMapped == <<"Patient", "/", "M1">>
SCanonical == <<"Patient", "/", "K1">>
\* a mapping names references of the library: the identifier of the synthetic
\* patient is drawn in the build and cannot be a key of the file
Mappings == { {}, {<<SPatient, SMapped>>} }
Canonicals == { <<>>, SCanonical }
ArgLibraries ==
    { Library({Res("Observation", "O1", <<KV("subject", Ref(SPatient))>>), t}) :
        t \in Absent \cup {Template(<<SecObservation>>),
                          Template(<<SecObservation, SecPatient>>)} }
Inputs ==
    { [lib |-> l, map |-> {}, canon |-> <<>>] : l \in Libraries }
    \cup
    { [lib |-> l, map |-> m, canon |-> c] :
        l \in ArgLibraries, m \in Mappings, c \in Canonicals }

Init ==
    /\ NormIdle
    /\ \E inp \in Inputs :
          /\ resources_by_key = inp.lib
          /\ map_file = inp.map
          /\ canonical_patient = inp.canon
    /\ lib0 = resources_by_key
    /\ randomize_values \in BOOLEAN
    /\ build_no = 1
    /\ pc = "start"
    /\ synthetic_patient_ref = <<>>
    /\ selected_sections = <<>>
    /\ composition_sections = <<>>
    /\ title_owner = <<>>
    /\ selected_keys = {}
    /\ todo_keys = {}
    /\ bundle = None
    /\ bundle_fullUrls = {}
    /\ stack = <<>>
    /\ ensure_pos = 0
    /\ issues = <<>>

Next ==
    \/ StartBuild
    \/ BuildSection
    \/ InitBundle
    \/ IncludeSelected
    \/ ClosureStep
    \/ GenerateValues
    \/ Normalize1
    \/ EnsureEntry
    \/ Normalize2
    \/ ApplyMapping
    \/ ApplyCanonical
    \/ Validate
    \/ NextBuild

Spec == Init /\ [][Next]_vars

(***************************************************************************)
(* Properties                                                              *)
(***************************************************************************)
FullUrls(b) == [i \in 1..Len(Entries(b)) |-> Get(Entries(b)[i], "fullUrl").s]
ResourceKeys(b) == [i \in 1..Len(Entries(b)) |-> KeyOf(Get(Entries(b)[i], "resource"))]
Count(seq, x) == Cardinality({i \in 1..Len(seq) : seq[i] = x})
NoRepeats(seq) == \A i, j \in 1..Len(seq) : i # j => seq[i] # seq[j]

Returned == pc \in {"built", "validated"}
\* no call of include_resource_and_children is active and at least one returned
ClosureReturned == pc = "include" /\ stack = <<>> /\ todo_keys # selected_keys
\* every seed of the first loop has been closed over
AllSeedsClosed == pc = "include" /\ stack = <<>> /\ todo_keys = {}

\* C1: the bundle returned by build_composition_and_bundle has no two entries
\* with the same fullUrl.
C1_UniqueFullUrls == Returned => NoRepeats(FullUrls(bundle))

\* the references the scanner finds in the library's own copy of a resource
\* that are keys of the library
Edges(key) == find_reference_strings(resources_by_key[key]) \cap DOMAIN resources_by_key

\* C2: once include_resource_and_children has returned, every library resource
\* that an included resource references (as the library holds it) has an entry
\* in the bundle.
C2_ClosureComplete ==
    ClosureReturned =>
        \A i \in 1..Len(Entries(bundle)) :
            ResourceKeys(bundle)[i] \in DOMAIN resources_by_key =>
                \A child \in Edges(ResourceKeys(bundle)[i]) :
                    Count(ResourceKeys(bundle), child) >= 1

\* every string that is the value of an attribute, at any depth
RECURSIVE AttrStrings(_)
AttrStrings(o) ==
    IF IsDict(o)
    THEN UNION { IF IsStr(o.kids[i].v) THEN {o.kids[i].v.s} ELSE AttrStrings(o.kids[i].v)
                 : i \in 1..Len(o.kids) }
    ELSE IF IsList(o)
    THEN UNION { AttrStrings(o.kids[i].v) : i \in 1..Len(o.kids) }
    ELSE {}

IsPatientReference(s) == RefMatches(s) /\ RefKey(s)[1] = <<"Patient">>

\* C3: in the returned bundle every string-valued attribute that the reference
\* grammar reads as a reference to a Patient is the canonical patient
\* reference of the build.
C3_PatientRefsCanonical ==
    Returned =>
        \A s \in AttrStrings(bundle) :
            IsPatientReference(s) => s = synthetic_patient_ref

\* the keys reachable from the given keys along Edges, in at most n steps
RECURSIVE ReachN(_, _)
ReachN(keys, n) ==
    IF n = 0 THEN keys
    ELSE ReachN(keys \cup UNION {Edges(k) : k \in keys}, n - 1)
Reachable(key) ==
    ReachN(Edges(key), Cardinality(DOMAIN resources_by_key))
\* the members of the reference cycles through key
CycleThrough(key) ==
    IF key \in Reachable(key)
    THEN {m \in Reachable(key) : key \in Reachable(m)}
    ELSE {}

\* C4: when the closure seeded with a member of a reference cycle of length
\* two or more has returned, every member of the cycle is in exactly one
\* bundle entry.
C4_CycleMembersOnce ==
    AllSeedsClosed =>
        \A seed \in selected_keys \cap DOMAIN resources_by_key :
            Cardinality(CycleThrough(seed)) >= 2 =>
                \A m \in CycleThrough(seed) : Count(ResourceKeys(bundle), m) = 1

\* a call of include_resource_and_children runs on until it returns
FairSpec == Spec /\ WF_vars(ClosureStep)

\* every closure that was started returns
C4_Terminates == (stack # <<>>) ~> (stack = <<>>)

\* no library resource is expanded more than once by the closure
C4_AtMostOnce ==
    pc \in {"include", "ensure"} =>
        \A key \in DOMAIN resources_by_key : Count(ResourceKeys(bundle), key) <= 1

SelectedReferences(sections) ==
    LET es == Flatten(sections)
    IN [i \in 1..Len(es) |-> Get(es[i], "reference").s]

\* C5: within one build no resource key is selected twice, neither inside one
\* section nor by two sections.
C5_NoRepeatedSelection ==
    pc = "sections" => NoRepeats(SelectedReferences(composition_sections))

TemplateSectionsUsed == \E i \in 1..Len(title_owner) : title_owner[i] # NoOwner

\* C7: with a non-empty index the returned Composition has a section; when the
\* pass over the template gave no usable section, it has exactly one section
\* with exactly one entry, which references a resource of the index.
C7_SectionsNonEmpty ==
    (Returned /\ DOMAIN resources_by_key # {}) =>
        LET sections == Items(Get(Composition, "section"))
        IN /\ sections # <<>>
           /\ ~TemplateSectionsUsed =>
                 /\ Len(sections) = 1
                 /\ Len(SectionEntries(Composition)) = 1
                 /\ RefKey(Get(SectionEntries(Composition)[1], "reference").s)
                       \in DOMAIN resources_by_key

\* C8: no build changes a resource body of the index.
C8_IndexUnchanged == resources_by_key = lib0

IssueNames(ref) ==
    \E i \in 1..Len(issues) :
        issues[i].severity = "error" /\ issues[i].detail.ref = ref

\* C9: at the end of the pipeline every reference that the closure found in an
\* included resource and whose key is not in the index has an entry in the
\* bundle or an error issue of structural_validate_bundle naming it.
C9_NoSilentDangling ==
    pc = "validated" =>
        \A i \in 1..Len(Entries(bundle)) :
            ResourceKeys(bundle)[i] \in DOMAIN resources_by_key =>
                \A r \in find_reference_strings(Get(Entries(bundle)[i], "resource")) :
                    r \notin DOMAIN resources_by_key =>
                        \/ Count(FullUrls(bundle), FmtKey(r)) >= 1
                        \/ IssueNames(FmtKey(r))

ScenarioLibrary ==
    Library({Res("Patient", "P1", <<>>),
             Res("Encounter", "E1", <<KV("subject", Ref(SPatient))>>),
             Res("Observation", "O1",
                 <<KV("encounter", Ref(SEncounter)), KV("subject", Ref(SPatient))>>),
             Template(<<SecObservation>>)})

NonCompositionUrls(b) ==
    {i \in 1..Len(Entries(b)) :
        Get(Get(Entries(b)[i], "resource"), "resourceType") # Str(<<"Composition">>)}

\* C10: in the scenario library the closure seeded with O1 yields exactly
\* three entries beside the Composition: O1, E1 and P1, each once.
C10_Scenario ==
    (AllSeedsClosed /\ lib0 = ScenarioLibrary
        /\ selected_keys = {<< <<"Observation">>, <<"O1">> >>}) =>
        /\ Cardinality(NonCompositionUrls(bundle)) = 3
        /\ {FullUrls(bundle)[i] : i \in NonCompositionUrls(bundle)}
              = {SObservation, SEncounter, SPatient}

(***************************************************************************)
(* The validator on its own: structural_validate_bundle is public and is   *)
(* given any bundle, well formed or not                                    *)
(***************************************************************************)
MaxEntries == 3     \* entries of a bundle given to the validator

SOther == <<"Patient", "/", "P2">>
SComposition == <<"Composition", "/", "C1">>

VComposition(attrs) == BundleEntry(SComposition, Res("Composition", "C1", attrs))

ValEntries ==
    { VComposition(<<KV("subject", Ref(SPatient)), KV("section", Lst(<<>>))>>),
      VComposition(<<KV("subject", Ref(SPatient)),
                     KV("section", Lst(<<SecObservation>>))>>),
      \* a subject that is no object
      VComposition(<<KV("subject", Str(SPatient))>>),
      \* a section entry that is no object
      VComposition(<<KV("subject", Ref(SPatient)),
                     KV("section", Lst(<<Section(Str(<<"a">>),
                                                 <<Str(SObservation)>>)>>))>>),
      \* a section entry without "reference"
      VComposition(<<KV("subject", Ref(SPatient)),
                     KV("section", Lst(<<SecNoReference>>))>>),
      BundleEntry(SPatient, Res("Patient", "P1", <<>>)),
      BundleEntry(SObservation, Res("Observation", "O1",
                                    <<KV("subject", Ref(SPatient))>>)),
      \* Patient references under attributes other than "reference"
      BundleEntry(SObservation,
                  Res("Observation", "O1",
                      <<KV("subject", Str(SOther)),
                        KV("link", Lst(<<Obj(<<KV("other", Str(SOther))>>)>>))>>)),
      \* a resource that is null, and one that is no object
      BundleEntry(SEncounter, None),
      BundleEntry(SEncounter, Str(<<"x">>)),
      \* no fullUrl: without and with a resource id
      Obj(<<KV("resource", Obj(<<KV("resourceType", Str(<<"Encounter">>))>>))>>),
      Obj(<<KV("resource", Res("Patient", "P1", <<>>))>>) }

RECURSIVE ValSeqs(_)
ValSeqs(n) ==
    IF n = 0 THEN {<<>>}
    ELSE LET S == ValSeqs(n - 1)
         IN S \cup {Append(q, e) : q \in S, e \in ValEntries}

BundleOf(entries) ==
    Obj(<<KV("resourceType", Str(<<"Bundle">>)), KV("type", Str(<<"document">>)),
          KV("entry", Lst(entries))>>)

ValBundles == {BundleOf(q) : q \in ValSeqs(MaxEntries)}

ValInit ==
    /\ NormIdle
    /\ resources_by_key = <<>>
    /\ lib0 = <<>>
    /\ randomize_values = FALSE
    /\ build_no = 1
    /\ pc = "rewritten"
    /\ synthetic_patient_ref = <<>>
    /\ selected_sections = <<>>
    /\ composition_sections = <<>>
    /\ title_owner = <<>>
    /\ selected_keys = {}
    /\ todo_keys = {}
    /\ bundle \in ValBundles
    /\ bundle_fullUrls = {}
    /\ stack = <<>>
    /\ ensure_pos = 0
    /\ issues = <<>>
    /\ map_file = {}
    /\ canonical_patient = <<>>

ValNext == Validate

ValSpec == ValInit /\ [][ValNext]_vars

IsError(issue) == issue.severity = "error"
Errors(found) == SelectSeq(found, IsError)

\* the bundle has no defect once an entry Patient/P1 is added to it
NoOtherDefect(b) ==
    LET b2 == AppendEntry(b, BundleEntry(SPatient, Res("Patient", "P1", <<>>)))
    IN ~ValidatorRaises(b2) /\ structural_validate_bundle(b2) = <<>>

SubjectDangles(b) ==
    /\ Get(Get(FirstComposition(Entries(b)), "subject"), "reference") = Str(SPatient)
    /\ SPatient \notin Present(Entries(b))
    /\ NoOtherDefect(b)

\* C11: for a bundle whose Composition subject is Patient/P1, that has no
\* entry Patient/P1 and no other defect, the validator returns exactly one
\* error issue, and it names Patient/P1.
C11_OneSubjectError ==
    (pc = "validated" /\ SubjectDangles(bundle)) =>
        /\ Len(Errors(issues)) = 1
        /\ Errors(issues)[1].detail.ref = SPatient

\* C12: the validator never raises: for every bundle, malformed ones
\* included, it returns its list of issues (it assigns nothing in the
\* bundle, so the bundle is as it was).
C12_NeverRaises == pc # "raised"

CompositionEntries(b) ==
    {i \in 1..Len(Entries(b)) :
        Get(Get(Entries(b)[i], "resource"), "resourceType") = Str(<<"Composition">>)}

\* C13: a result without issues implies exactly one Composition entry.
C13_ExactlyOneComposition ==
    (pc = "validated" /\ issues = <<>>) =>
        Cardinality(CompositionEntries(bundle)) = 1

\* C14: every Patient reference inside an embedded resource, under any
\* attribute name and at any depth (the strings the normalizer rewrites),
\* that is the full identifier of no entry is named by an error issue.
C14_AllPatientRefsChecked ==
    pc = "validated" =>
        \A i \in 1..Len(Entries(bundle)) :
            \A s \in AttrStrings(Get(Entries(bundle)[i], "resource")) :
                (StartsWithPatient(s) /\ s \notin Present(Entries(bundle)))
                    => IssueNames(s)

PatientRefsResolve(b) ==
    /\ ~ValidatorRaises(b)
    /\ ResourceIssues(Entries(b), Present(Entries(b))) = <<>>

\* C16: a late pass of main (mapping, canonical) applied to a bundle whose
\* Patient references all resolve leaves a bundle whose Patient references
\* all resolve.
C16_RewritePreservesClosure ==
    [][ (pc \in {"built", "mapped"} /\ PatientRefsResolve(bundle))
            => PatientRefsResolve(bundle') ]_vars
====
